---------------------------- MODULE Spec2Model ----------------------------
(***************************************************************************)
(* Model of app.py, the shot-map page: per-league tables are loaded and    *)
(* merged, a cascade of sidebar filters narrows them, and the surviving    *)
(* shots are drawn on a pitch.  The script runs top to bottom once per     *)
(* user interaction; pc is the position of the current run in the script.  *)
(*                                                                         *)
(* A table is a set of rows; a row is a record whose id is its identity.   *)
(* Coordinates and xg are kept in hundredths.  A multiselect's value is    *)
(* kept as the set of picked options (the order of picking, which only     *)
(* orders the items inside a title clause, is not kept).                   *)
(***************************************************************************)
EXTENDS Integers, Sequences, FiniteSets

\* ------------------------------------------------------------------ bounds
\* at most MaxRows rows over all source files
MaxRows == 2
\* at most MaxPicks options picked over all the multiselects of one run
MaxPicks == 2

\* ------------------------------------------------------------ pandas values
\* an absent categorical cell
NaN == "NaN"
\* an absent numeric cell
NaNNum == -1

CatCols == {"team", "player", "game", "situation", "body_part", "result"}
NumCols == {"location_x", "location_y", "xg"}

\* pd.isna of the cell of row r in column col
IsNa(r, col) == IF col \in NumCols THEN r[col] = NaNNum ELSE r[col] = NaN

\* ------------------------------------------------------------ configuration
LEAGUE_FILES ==
    << [league |-> "ENG-Premier League", file_path |-> "epl_shots.csv"],
       [league |-> "ESP-La Liga",        file_path |-> "laliga_shots.csv"],
       [league |-> "FRA-Ligue 1",        file_path |-> "fra_shots.csv"],
       [league |-> "GER-Bundesliga",     file_path |-> "ger_shots.csv"],
       [league |-> "ITA-Serie A",        file_path |-> "ita_shots.csv"] >>

FilePaths == { LEAGUE_FILES[i].file_path : i \in DOMAIN LEAGUE_FILES }

\* the colour of each known outcome, in the order the dict literal lists them
result_colors ==
    << [result |-> "Goal",         color |-> "yellow"],
       [result |-> "Missed Shot",  color |-> "red"],
       [result |-> "Blocked Shot", color |-> "gray"],
       [result |-> "Saved Shot",   color |-> "blue"],
       [result |-> "Shot On Post", color |-> "orange"],
       [result |-> "Unknown",      color |-> "purple"] >>

PaletteKeys == { result_colors[i].result : i \in DOMAIN result_colors }

\* result_colors.get(key, default)
ColorGet(key, default) ==
    IF key \in PaletteKeys
    THEN (CHOOSE e \in { result_colors[i] : i \in DOMAIN result_colors } :
              e.result = key).color
    ELSE default

\* Series.map(result_colors): a value that is no key of the dict maps to NaN
MapColor(result) == ColorGet(result, NaN)

\* ------------------------------------------------------- order of strings
\* The strings of the model in the order Python's sorted() puts them.
StrOrder ==
    << "All", "Arsenal", "Barcelona", "Blocked Shot", "Chelsea",
       "ENG-Premier League", "ESP-La Liga", "FRA-Ligue 1", "G1",
       "GER-Bundesliga", "Goal", "Head", "ITA-Serie A", "Kane",
       "Missed Shot", "OpenPlay", "Own Goal", "Saka", "Saved Shot",
       "SetPiece", "Shot On Post", "Unknown" >>

Rank(s) == CHOOSE i \in DOMAIN StrOrder : StrOrder[i] = s

RECURSIVE Sorted(_)
\* sorted(S): the elements of S as an ascending list
Sorted(S) ==
    IF S = {} THEN << >>
    ELSE LET m == CHOOSE x \in S : \A y \in S : Rank(x) <= Rank(y)
         IN  << m >> \o Sorted(S \ {m})

Range(seq) == { seq[i] : i \in DOMAIN seq }

\* df[col].unique(), as a set
Unique(df, col) == { r[col] : r \in df }

\* ------------------------------------------------------------- source rows
\* The rows a source file may hold.  A raw row has no league column yet.
Raw(id, team, player, game, situation, body_part, result, x, y, xg) ==
    [id |-> id, team |-> team, player |-> player, game |-> game,
     situation |-> situation, body_part |-> body_part, result |-> result,
     location_x |-> x, location_y |-> y, xg |-> xg]

SourceRows ==
    [f \in FilePaths |->
       CASE f = "epl_shots.csv" ->
              { Raw(1, "Arsenal", "Saka", "G1", "OpenPlay", "Head", "Goal", 90, 50, 40),
                Raw(2, "Chelsea", "Kane", "G1", "SetPiece", NaN, "Missed Shot", 80, 40, 10),
                Raw(3, NaN, NaN, NaN, "OpenPlay", "Head", NaN, 70, 60, 5),
                Raw(4, "Arsenal", "Saka", "G1", "OpenPlay", "Head", "Own Goal", 95, 50, 20),
                Raw(5, "Chelsea", "Kane", NaN, "SetPiece", "Head", "Goal", NaNNum, 50, 30),
                Raw(6, "Arsenal", "Saka", "G1", "OpenPlay", NaN, "Missed Shot", 85, 45, NaNNum) }
         [] f = "laliga_shots.csv" ->
              { Raw(7, "Barcelona", "Kane", "G1", "OpenPlay", "Head", "Goal", 88, 52, 35),
                Raw(8, "Barcelona", NaN, "G1", "SetPiece", "Head", "Saved Shot", 75, NaNNum, 15) }
         [] OTHER -> {} ]

AllSourceRows == UNION { SourceRows[f] : f \in FilePaths }

\* what pd.read_csv finds at a path: no file, or a table
NoFile == [exists |-> FALSE, rows |-> {}]
Table(rows) == [exists |-> TRUE, rows |-> rows]

\* ---------------------------------------------------------- table operators
\* df['league'] = league
WithLeague(rows, league) ==
    { [id |-> r.id, league |-> league, team |-> r.team, player |-> r.player,
       game |-> r.game, situation |-> r.situation, body_part |-> r.body_part,
       result |-> r.result, location_x |-> r.location_x,
       location_y |-> r.location_y, xg |-> r.xg] : r \in rows }

\* pd.concat(all_shots_data.values())
Concat(data) == UNION { data[l] : l \in DOMAIN data }

\* df[col].fillna('Unknown') for each categorical filter column
FillNa(df) ==
    LET Fill(v) == IF v = NaN THEN "Unknown" ELSE v
    IN  { [r EXCEPT !.team = Fill(@), !.player = Fill(@), !.game = Fill(@),
                    !.situation = Fill(@), !.body_part = Fill(@),
                    !.result = Fill(@)] : r \in df }

\* df[df[col].isin(selection)]
IsIn(df, col, selection) == { r \in df : r[col] \in selection }

\* df[df['league'] == selected]
LeagueFilter(df, selected) == { r \in df : r.league = selected }

\* a team stage that takes 'All' to lift the restriction only when picked alone
TeamFilterAllAlone(df, selected) ==
    IF selected = {"All"} THEN df ELSE IsIn(df, "team", selected)

\* the team stage: 'All' among the picks keeps the league subset whole
TeamFilter(df, selected) ==
    IF "All" \in selected THEN df ELSE IsIn(df, "team", selected)

\* a later stage that forgets to narrow
StageFilterSkipped(df, col, selected) == df

\* a later stage: applied only if something is picked
StageFilter(df, col, selected) ==
    IF selected # {} THEN IsIn(df, col, selected) ELSE df

PlotCols == {"location_x", "location_y", "xg", "result"}

\* a dropna that drops a row only if all of the columns are absent (how='all')
DropNaHowAll(df, cols) == { r \in df : \E c \in cols : ~IsNa(r, c) }

\* df.dropna(subset=cols)
DropNa(df, cols) == { r \in df : \A c \in cols : ~IsNa(r, c) }

\* the option list of a dependent multiselect
Options(df, col) == Sorted(Unique(df, col))

\* leagues.index(value); 0 stands for the ValueError of a value not in the list
IndexOf(seq, value) ==
    IF value \in Range(seq) THEN CHOOSE i \in DOMAIN seq : seq[i] = value ELSE 0

\* one marker per row, as pitch.scatter is asked to draw it
Markers(df) ==
    { [id |-> r.id, x |-> r.location_x * 120, y |-> r.location_y * 80,
       s |-> r.xg * 1500, color |-> MapColor(r.result)] : r \in df }

\* the legend handles: one per palette key that is present in the rows
Handles(df) ==
    LET present_results == Unique(df, "result")
        keep == SelectSeq(result_colors, LAMBDA e : e.result \in present_results)
    IN  [ i \in DOMAIN keep |->
            [label |-> keep[i].result,
             markerfacecolor |-> ColorGet(keep[i].result, "black")] ]

Clause(stage, items) == [stage |-> stage, items |-> items]

\* title_parts: one clause per constrained stage, in stage order
TitleParts(league, teams, players, games, sits, parts, ress) ==
    << Clause("Shot Map", {}), Clause("for", {league}) >>
    \o (IF teams # {} /\ "All" \notin teams THEN << Clause("team", teams) >> ELSE << >>)
    \o (IF players # {} THEN << Clause("by", players) >> ELSE << >>)
    \o (IF games # {} THEN << Clause("in", games) >> ELSE << >>)
    \o (IF sits # {} THEN << Clause("from", sits) >> ELSE << >>)
    \o (IF parts # {} THEN << Clause("with", parts) >> ELSE << >>)
    \o (IF ress # {} THEN << Clause("result", ress) >> ELSE << >>)

NoPlot == [drawn |-> FALSE, title |-> << >>, legend |-> << >>]
Figure(title, legend) == [drawn |-> TRUE, title |-> title, legend |-> legend]

\* ------------------------------------------------------------------ state
VARIABLES
    files,                \* the working directory: file path -> NoFile or a table
    pc,                   \* position of the run in the script
    li,                   \* position of the loading loop in LEAGUE_FILES
    all_shots_data,       \* league -> loaded table
    error,                \* the file path st.error names, "" if none
    combined_shots_df,
    leagues, league_index, selected_league, filtered_by_league,
    teams_with_all, selected_teams, filtered_by_teams,
    all_players, selected_players,
    all_games, selected_games,
    situations, selected_situations,
    body_parts, selected_body_parts,
    results, selected_results,
    filtered_shots,
    shot_count,           \* the number st.sidebar.info shows, -1 if not shown
    written,              \* the text st.write shows, "" if none
    markers,              \* the markers pitch.scatter is asked to draw
    plot,                 \* the figure st.pyplot shows
    last_sidebar          \* the sidebar as the run before this one left it

loadVars   == << li, all_shots_data, error, combined_shots_df >>
leagueVars == << leagues, league_index, selected_league, filtered_by_league >>
teamVars   == << teams_with_all, selected_teams, filtered_by_teams >>
playerVars == << all_players, selected_players >>
gameVars   == << all_games, selected_games >>
sitVars    == << situations, selected_situations >>
bodyVars   == << body_parts, selected_body_parts >>
resultVars == << results, selected_results >>
outVars    == << shot_count, written, markers, plot >>

vars == << files, pc, loadVars, leagueVars, teamVars, playerVars, gameVars,
           sitVars, bodyVars, resultVars, filtered_shots, outVars, last_sidebar >>

NoMessage == ""
NoShotsMessage == "No shots match the selected filters."
NotShown == -1

\* What a finished run leaves on the sidebar: the two leading selections, the
\* number of options picked in the five dependent multiselects, and every
\* option list.
NoSidebar == [shown |-> FALSE]

\* the values of a run that has not started
Fresh ==
    /\ pc = "load"
    /\ li = 1
    /\ all_shots_data = << >>
    /\ error = ""
    /\ combined_shots_df = {}
    /\ leagues = << >> /\ league_index = 0 /\ selected_league = ""
    /\ filtered_by_league = {}
    /\ teams_with_all = << >> /\ selected_teams = {} /\ filtered_by_teams = {}
    /\ all_players = << >> /\ selected_players = {}
    /\ all_games = << >> /\ selected_games = {}
    /\ situations = << >> /\ selected_situations = {}
    /\ body_parts = << >> /\ selected_body_parts = {}
    /\ results = << >> /\ selected_results = {}
    /\ filtered_shots = {}
    /\ shot_count = NotShown /\ written = NoMessage
    /\ markers = {} /\ plot = NoPlot

\* Any set of the configured files may be absent; the files present hold at
\* most MaxRows rows between them.
Init ==
    /\ \E present \in SUBSET FilePaths, rows \in SUBSET AllSourceRows :
         /\ Cardinality(rows) <= MaxRows
         /\ \A f \in FilePaths : f \notin present => rows \cap SourceRows[f] = {}
         /\ files = [f \in FilePaths |->
                       IF f \in present THEN Table(rows \cap SourceRows[f]) ELSE NoFile]
    /\ Fresh
    /\ last_sidebar = NoSidebar

\* the options picked so far in this run, over all multiselects
Picked ==
    Cardinality(selected_teams) + Cardinality(selected_players)
    + Cardinality(selected_games) + Cardinality(selected_situations)
    + Cardinality(selected_body_parts) + Cardinality(selected_results)

\* the values a multiselect over the given options may return
Picks(options) ==
    { sel \in SUBSET Range(options) : Picked + Cardinality(sel) <= MaxPicks }

\* --------------------------------------------------------------- loading
\* a loading loop that skips a file that is not found and carries on
LoadBestEffort ==
    /\ pc = "load"
    /\ li \in DOMAIN LEAGUE_FILES
    /\ LET league == LEAGUE_FILES[li].league
           file_path == LEAGUE_FILES[li].file_path
       IN  /\ all_shots_data' =
                 IF files[file_path].exists
                 THEN [l \in DOMAIN all_shots_data \cup {league} |->
                         IF l = league THEN WithLeague(files[file_path].rows, league)
                         ELSE all_shots_data[l]]
                 ELSE all_shots_data
           /\ error' = IF files[file_path].exists THEN error ELSE file_path
           /\ li' = li + 1
           /\ pc' = IF li = Len(LEAGUE_FILES) THEN "merge" ELSE "load"
    /\ UNCHANGED << files, combined_shots_df, leagueVars, teamVars, playerVars,
                    gameVars, sitVars, bodyVars, resultVars, filtered_shots, outVars,
                    last_sidebar >>

\* One turn of the loading loop: read the file, tag its rows with the league;
\* a file that is not found is reported and the script stops.
Load ==
    /\ pc = "load"
    /\ li \in DOMAIN LEAGUE_FILES
    /\ LET league == LEAGUE_FILES[li].league
           file_path == LEAGUE_FILES[li].file_path
       IN  IF files[file_path].exists
           THEN /\ all_shots_data' =
                     [l \in DOMAIN all_shots_data \cup {league} |->
                        IF l = league THEN WithLeague(files[file_path].rows, league)
                        ELSE all_shots_data[l]]
                /\ li' = li + 1
                /\ pc' = IF li = Len(LEAGUE_FILES) THEN "merge" ELSE "load"
                /\ error' = error
           ELSE /\ error' = file_path
                /\ pc' = "stopped"
                /\ UNCHANGED << li, all_shots_data >>
    /\ UNCHANGED << files, combined_shots_df, leagueVars, teamVars, playerVars,
                    gameVars, sitVars, bodyVars, resultVars, filtered_shots, outVars,
                    last_sidebar >>

\* concatenate the loaded tables and fill the absent categorical cells
Merge ==
    /\ pc = "merge"
    /\ combined_shots_df' = FillNa(Concat(all_shots_data))
    /\ pc' = "league"
    /\ UNCHANGED << files, li, all_shots_data, error, leagueVars, teamVars,
                    playerVars, gameVars, sitVars, bodyVars, resultVars,
                    filtered_shots, outVars, last_sidebar >>

\* ------------------------------------------------------------ the sidebar
\* The league selectbox.  Its index argument is evaluated on every run; the
\* value returned is the league the user has chosen among the options.
LeagueSelect ==
    /\ pc = "league"
    /\ LET ls == Sorted(Unique(combined_shots_df, "league"))
           idx == IndexOf(ls, "ENG-Premier League")
       IN  /\ leagues' = ls
           /\ league_index' = idx
           /\ IF idx = 0
              THEN /\ pc' = "crashed"
                   /\ UNCHANGED << selected_league, filtered_by_league >>
              ELSE /\ \E choice \in Range(ls) :
                        /\ selected_league' = choice
                        /\ filtered_by_league' = LeagueFilter(combined_shots_df, choice)
                   /\ pc' = "team"
    /\ UNCHANGED << files, loadVars, teamVars, playerVars, gameVars, sitVars,
                    bodyVars, resultVars, filtered_shots, outVars, last_sidebar >>

TeamSelect ==
    /\ pc = "team"
    /\ teams_with_all' = << "All" >> \o Options(filtered_by_league, "team")
    /\ \E sel \in Picks(teams_with_all') :
         /\ selected_teams' = sel
         /\ filtered_by_teams' = TeamFilter(filtered_by_league, sel)
    /\ pc' = "player"
    /\ UNCHANGED << files, loadVars, leagueVars, playerVars, gameVars, sitVars,
                    bodyVars, resultVars, filtered_shots, outVars, last_sidebar >>

PlayerSelect ==
    /\ pc = "player"
    /\ all_players' = Options(filtered_by_teams, "player")
    /\ selected_players' \in Picks(all_players')
    /\ pc' = "game"
    /\ UNCHANGED << files, loadVars, leagueVars, teamVars, gameVars, sitVars,
                    bodyVars, resultVars, filtered_shots, outVars, last_sidebar >>

\* a match multiselect whose options come from the rows left by the player picks
GameSelectCascading ==
    /\ pc = "game"
    /\ all_games' = Options(StageFilter(filtered_by_teams, "player", selected_players),
                            "game")
    /\ selected_games' \in Picks(all_games')
    /\ pc' = "situation"
    /\ UNCHANGED << files, loadVars, leagueVars, teamVars, playerVars, sitVars,
                    bodyVars, resultVars, filtered_shots, outVars, last_sidebar >>

GameSelect ==
    /\ pc = "game"
    /\ all_games' = Options(filtered_by_teams, "game")
    /\ selected_games' \in Picks(all_games')
    /\ pc' = "situation"
    /\ UNCHANGED << files, loadVars, leagueVars, teamVars, playerVars, sitVars,
                    bodyVars, resultVars, filtered_shots, outVars, last_sidebar >>

SituationSelect ==
    /\ pc = "situation"
    /\ situations' = Options(filtered_by_teams, "situation")
    /\ selected_situations' \in Picks(situations')
    /\ pc' = "body_part"
    /\ UNCHANGED << files, loadVars, leagueVars, teamVars, playerVars, gameVars,
                    bodyVars, resultVars, filtered_shots, outVars, last_sidebar >>

BodyPartSelect ==
    /\ pc = "body_part"
    /\ body_parts' = Options(filtered_by_teams, "body_part")
    /\ selected_body_parts' \in Picks(body_parts')
    /\ pc' = "result"
    /\ UNCHANGED << files, loadVars, leagueVars, teamVars, playerVars, gameVars,
                    sitVars, resultVars, filtered_shots, outVars, last_sidebar >>

ResultSelect ==
    /\ pc = "result"
    /\ results' = Options(filtered_by_teams, "result")
    /\ selected_results' \in Picks(results')
    /\ filtered_shots' = filtered_by_teams
    /\ pc' = "apply_player"
    /\ UNCHANGED << files, loadVars, leagueVars, teamVars, playerVars, gameVars,
                    sitVars, bodyVars, outVars, last_sidebar >>

\* ------------------------------------------------------ applying filters
sidebarVars == << leagueVars, teamVars, playerVars, gameVars, sitVars,
                  bodyVars, resultVars >>

ApplyPlayers ==
    /\ pc = "apply_player"
    /\ filtered_shots' = StageFilter(filtered_shots, "player", selected_players)
    /\ pc' = "apply_game"
    /\ UNCHANGED << files, loadVars, sidebarVars, outVars, last_sidebar >>

ApplyGames ==
    /\ pc = "apply_game"
    /\ filtered_shots' = StageFilter(filtered_shots, "game", selected_games)
    /\ pc' = "apply_situation"
    /\ UNCHANGED << files, loadVars, sidebarVars, outVars, last_sidebar >>

ApplySituations ==
    /\ pc = "apply_situation"
    /\ filtered_shots' = StageFilter(filtered_shots, "situation", selected_situations)
    /\ pc' = "apply_body_part"
    /\ UNCHANGED << files, loadVars, sidebarVars, outVars, last_sidebar >>

ApplyBodyParts ==
    /\ pc = "apply_body_part"
    /\ filtered_shots' = StageFilter(filtered_shots, "body_part", selected_body_parts)
    /\ pc' = "apply_result"
    /\ UNCHANGED << files, loadVars, sidebarVars, outVars, last_sidebar >>

ApplyResults ==
    /\ pc = "apply_result"
    /\ filtered_shots' = StageFilter(filtered_shots, "result", selected_results)
    /\ pc' = "dropna"
    /\ UNCHANGED << files, loadVars, sidebarVars, outVars, last_sidebar >>

\* drop the rows that cannot be plotted and show how many are left
DropUnplottable ==
    /\ pc = "dropna"
    /\ filtered_shots' = DropNa(filtered_shots, PlotCols)
    /\ shot_count' = Cardinality(filtered_shots')
    /\ pc' = "show"
    /\ UNCHANGED << files, loadVars, sidebarVars, written, markers, plot,
                    last_sidebar >>

\* ------------------------------------------------------------- rendering
\* nothing left: the neutral message, and no figure
WriteNoShots ==
    /\ pc = "show"
    /\ filtered_shots = {}
    /\ written' = NoShotsMessage
    /\ pc' = "message"
    /\ UNCHANGED << files, loadVars, sidebarVars, filtered_shots, shot_count,
                    markers, plot, last_sidebar >>

\* Draw the pitch, the markers, the title and the legend.  A marker whose
\* colour is NaN is one matplotlib may refuse: the scatter call then raises
\* and the run ends there, or it is accepted and the figure is shown.
Render ==
    /\ pc = "show"
    /\ filtered_shots # {}
    /\ markers' = Markers(filtered_shots)
    /\ \/ /\ plot' = Figure(TitleParts(selected_league, selected_teams,
                                       selected_players, selected_games,
                                       selected_situations, selected_body_parts,
                                       selected_results),
                            Handles(filtered_shots))
          /\ pc' = "plotted"
       \/ /\ \E m \in markers' : m.color = NaN
          /\ plot' = plot
          /\ pc' = "crashed"
    /\ UNCHANGED << files, loadVars, sidebarVars, filtered_shots, shot_count,
                    written, last_sidebar >>

\* ---------------------------------------------------------------- reruns
Ended == pc \in {"stopped", "crashed", "message", "plotted"}

\* the run got past the last multiselect
SidebarDone ==
    pc \in {"apply_player", "apply_game", "apply_situation", "apply_body_part",
            "apply_result", "dropna", "show", "message", "plotted"}
    \/ (pc = "crashed" /\ league_index # 0)

\* the number of options picked in the five dependent multiselects
DependentPicks ==
    Cardinality(selected_players) + Cardinality(selected_games)
    + Cardinality(selected_situations) + Cardinality(selected_body_parts)
    + Cardinality(selected_results)

Sidebar ==
    [shown |-> TRUE,
     selected_league |-> selected_league, selected_teams |-> selected_teams,
     picked |-> DependentPicks,
     leagues |-> leagues, teams_with_all |-> teams_with_all,
     all_players |-> all_players, all_games |-> all_games,
     situations |-> situations, body_parts |-> body_parts, results |-> results]

\* an interaction (or a reload) runs the script again from the top
Rerun ==
    /\ Ended
    /\ pc' = "load"
    /\ li' = 1
    /\ all_shots_data' = << >>
    /\ error' = ""
    /\ combined_shots_df' = {}
    /\ leagues' = << >> /\ league_index' = 0 /\ selected_league' = ""
    /\ filtered_by_league' = {}
    /\ teams_with_all' = << >> /\ selected_teams' = {} /\ filtered_by_teams' = {}
    /\ all_players' = << >> /\ selected_players' = {}
    /\ all_games' = << >> /\ selected_games' = {}
    /\ situations' = << >> /\ selected_situations' = {}
    /\ body_parts' = << >> /\ selected_body_parts' = {}
    /\ results' = << >> /\ selected_results' = {}
    /\ filtered_shots' = {}
    /\ shot_count' = NotShown /\ written' = NoMessage
    /\ markers' = {} /\ plot' = NoPlot
    /\ last_sidebar' = IF SidebarDone THEN Sidebar ELSE last_sidebar
    /\ UNCHANGED files

Next ==
    \/ Load \/ Merge
    \/ LeagueSelect \/ TeamSelect \/ PlayerSelect \/ GameSelect
    \/ SituationSelect \/ BodyPartSelect \/ ResultSelect
    \/ ApplyPlayers \/ ApplyGames \/ ApplySituations \/ ApplyBodyParts
    \/ ApplyResults \/ DropUnplottable
    \/ WriteNoShots \/ Render
    \/ Rerun

Spec == Init /\ [][Next]_vars

\* ------------------------------------------------------------ properties
Missing == { f \in FilePaths : ~files[f].exists }

\* the place in the load order of the first file that is absent
FirstMissing ==
    CHOOSE i \in DOMAIN LEAGUE_FILES :
        /\ LEAGUE_FILES[i].file_path \in Missing
        /\ \A j \in 1..(i - 1) : LEAGUE_FILES[j].file_path \notin Missing

\* the league step has run (to its end or to its exception)
LeagueStepDone == pc \notin {"load", "merge", "league", "stopped"}

\* the team step has run
TeamStepDone == SidebarDone \/ pc \in {"player", "game", "situation", "body_part", "result"}

\* the validity pass has run and the count is on the sidebar
Counted == shot_count # NotShown

LeagueSubset == { r \in combined_shots_df : r.league = selected_league }

\* C1: for each of the stages Team, Player, Match, Situation, Body Part and
\* Result, a stage whose selection is empty hands on exactly the rows it was
\* given; an empty Team selection leaves the league subset unrestricted.
C1_EmptySelectionKeepsRows ==
    [][ /\ (pc = "team" /\ selected_teams' = {})
            => filtered_by_teams' = filtered_by_league
        /\ (pc = "apply_player" /\ selected_players = {})
            => filtered_shots' = filtered_shots
        /\ (pc = "apply_game" /\ selected_games = {})
            => filtered_shots' = filtered_shots
        /\ (pc = "apply_situation" /\ selected_situations = {})
            => filtered_shots' = filtered_shots
        /\ (pc = "apply_body_part" /\ selected_body_parts = {})
            => filtered_shots' = filtered_shots
        /\ (pc = "apply_result" /\ selected_results = {})
            => filtered_shots' = filtered_shots ]_vars

\* C2: whenever a figure is shown, its legend labels are exactly the distinct
\* result values of the final rows, palette members or not, each once.
C2_LegendIsPresentResults ==
    plot.drawn =>
        /\ { plot.legend[i].label : i \in DOMAIN plot.legend }
             = { r.result : r \in filtered_shots }
        /\ \A i, j \in DOMAIN plot.legend :
             plot.legend[i].label = plot.legend[j].label => i = j

\* C3: once the league selectbox has been set up, its default is
\* 'ENG-Premier League' if that league is among the options and the first
\* option otherwise, and setting it up never fails.
C3_DefaultLeague ==
    LeagueStepDone =>
        /\ league_index \in DOMAIN leagues
        /\ leagues[league_index] =
              IF "ENG-Premier League" \in Range(leagues)
              THEN "ENG-Premier League" ELSE leagues[1]

\* C4: a team selection that contains 'All', alone or with specific teams,
\* leaves the whole league subset after the Team stage, and the title of the
\* figure has no team clause.
C4_AllMeansNoRestriction ==
    (TeamStepDone /\ "All" \in selected_teams) =>
        /\ filtered_by_teams = LeagueSubset
        /\ \A i \in DOMAIN plot.title : plot.title[i].stage # "team"

C4_Witness ==
    /\ plot.drawn
    /\ selected_teams = {"All", "Arsenal"}
    /\ \E r \in filtered_shots : r.team = "Chelsea"

\* C5: if a configured source file is absent, the run never gets past loading:
\* nothing is merged, no control, count, message or figure is produced, the
\* loop does not pass the first absent file, and a run that has ended has
\* stopped with the error naming that file.
C5_MissingSourceAborts ==
    Missing # {} =>
        /\ pc \in {"load", "stopped"}
        /\ pc = "load" => li <= FirstMissing
        /\ (Ended \/ li > FirstMissing) =>
              (pc = "stopped" /\ error = LEAGUE_FILES[FirstMissing].file_path)
        /\ combined_shots_df = {}
        /\ leagues = << >> /\ teams_with_all = << >>
        /\ shot_count = NotShown /\ written = NoMessage
        /\ markers = {} /\ ~plot.drawn

C5_Witness ==
    /\ pc = "stopped"
    /\ error = "fra_shots.csv"
    /\ Missing = {"fra_shots.csv"}
    /\ \E l \in DOMAIN all_shots_data : all_shots_data[l] # {}

\* C6: every marker handed to the renderer has the colour of its row's result:
\* the palette colour for a palette key, the fallback colour for anything
\* else, never an absent colour.
C6_MarkersHaveColors ==
    \A m \in markers :
        \E r \in filtered_shots :
            /\ r.id = m.id
            /\ m.color = CASE r.result = "Goal"         -> "yellow"
                           [] r.result = "Missed Shot"  -> "red"
                           [] r.result = "Blocked Shot" -> "gray"
                           [] r.result = "Saved Shot"   -> "blue"
                           [] r.result = "Shot On Post" -> "orange"
                           [] r.result = "Unknown"      -> "purple"
                           [] OTHER                     -> "black"

\* C7: every row counted in the shot total and handed to the renderer has
\* location_x, location_y, xg and result present, whatever the selections.
C7_RenderedRowsComplete ==
    Counted =>
        /\ \A r \in filtered_shots :
              /\ r.location_x # NaNNum /\ r.location_y # NaNNum
              /\ r.xg # NaNNum /\ r.result # NaN
        /\ shot_count = Cardinality(filtered_shots)
        /\ { m.id : m \in markers } \subseteq { r.id : r \in filtered_shots }

C7_Witness ==
    /\ plot.drawn
    /\ shot_count = 1
    /\ \E r \in filtered_by_teams :
          /\ r.location_x = NaNNum
          /\ selected_players # {} /\ r.player \in selected_players

\* C8: a run that got past loading ends in exactly one of two ways: with no
\* rows left, the neutral message and no markers or figure; with rows left,
\* the figure and no message.  It never ends in an error.
C8_MessageOrPlot ==
    (Ended /\ pc # "stopped") =>
        \/ /\ filtered_shots = {}
           /\ pc = "message" /\ written = NoShotsMessage
           /\ markers = {} /\ ~plot.drawn
        \/ /\ filtered_shots # {}
           /\ pc = "plotted" /\ plot.drawn
           /\ written = NoMessage

\* C9: every row of the final set is of the selected league, of a selected
\* team unless 'All' is selected, and, for each of Player, Match, Situation,
\* Body Part and Result with a non-empty selection, has its value selected.
C9_FinalRowsMatchSelections ==
    Counted =>
        \A r \in filtered_shots :
            /\ r \in combined_shots_df
            /\ r.league = selected_league
            /\ "All" \in selected_teams \/ r.team \in selected_teams
            /\ selected_players = {} \/ r.player \in selected_players
            /\ selected_games = {} \/ r.game \in selected_games
            /\ selected_situations = {} \/ r.situation \in selected_situations
            /\ selected_body_parts = {} \/ r.body_part \in selected_body_parts
            /\ selected_results = {} \/ r.result \in selected_results

C9_Witness ==
    /\ plot.drawn
    /\ selected_league = "ENG-Premier League"
    /\ selected_teams = {"All"}
    /\ selected_results = {"Goal"}
    /\ \E r \in filtered_by_teams : r.result = "Missed Shot"
    /\ \A m \in markers : m.color = "yellow"

\* the list is strictly ascending in sorted() order and holds exactly vals
IsSortedListOf(list, vals) ==
    /\ Range(list) = vals
    /\ \A i, j \in DOMAIN list : i < j => Rank(list[i]) < Rank(list[j])

TeamSubset ==
    { r \in LeagueSubset : "All" \in selected_teams \/ r.team \in selected_teams }

\* C10: the option lists of Player, Match, Situation, Body Part and Result are
\* the sorted distinct values of their columns in the rows left by the League
\* and Team stages, and a run whose league and team selections are those of
\* the run before shows the same seven option lists, whatever was picked in
\* the five dependent multiselects in either run.
C10_OptionLists ==
    SidebarDone =>
        /\ IsSortedListOf(all_players, { r.player : r \in TeamSubset })
        /\ IsSortedListOf(all_games, { r.game : r \in TeamSubset })
        /\ IsSortedListOf(situations, { r.situation : r \in TeamSubset })
        /\ IsSortedListOf(body_parts, { r.body_part : r \in TeamSubset })
        /\ IsSortedListOf(results, { r.result : r \in TeamSubset })
        /\ ( /\ last_sidebar.shown
             /\ last_sidebar.selected_league = selected_league
             /\ last_sidebar.selected_teams = selected_teams )
           => /\ last_sidebar.leagues = leagues
              /\ last_sidebar.teams_with_all = teams_with_all
              /\ last_sidebar.all_players = all_players
              /\ last_sidebar.all_games = all_games
              /\ last_sidebar.situations = situations
              /\ last_sidebar.body_parts = body_parts
              /\ last_sidebar.results = results

C10_Witness ==
    /\ SidebarDone
    /\ last_sidebar.shown
    /\ last_sidebar.selected_league = selected_league
    /\ last_sidebar.selected_teams = selected_teams
    /\ last_sidebar.picked = 0
    /\ selected_players # {}
    /\ Len(all_players) = 2 /\ Len(all_games) = 2

=============================================================================
